---- MODULE Spec2Model ----
(***************************************************************************)
(* Model of the retry loop of package retry (src/retry.go).                *)
(*                                                                         *)
(* One Retryable value (fields B, ShouldRetry, MaxSteps) is shared by the  *)
(* callers.  Each caller runs Retryable.Retry; the locals of a run (b,     *)
(* filter, errors, n), the context handed to it and the timer of its       *)
(* select are indexed by the caller.  rets, delays and waits record what   *)
(* a run did (the values f returned, the durations handed to time.After,   *)
(* the branch each select took); they are read by the properties only.     *)
(***************************************************************************)
EXTENDS Integers, Sequences, FiniteSets

VARIABLES
    B,            \* r.B: the cursor of the backoff template (its next delay)
    ShouldRetry,  \* r.ShouldRetry: [isNil, accepts]
    MaxSteps,     \* r.MaxSteps
    pc,           \* per caller: "idle", "loop", "wait", "done"
    b,            \* per caller: the cursor of the run's clone
    filter,       \* per caller: the set of errors the run's filter accepts
    errors,       \* per caller: the errors accumulated by the run
    n,            \* per caller: the loop counter
    ctxErr,       \* per caller: ctx.Err() ("nil" while ctx.Done() is open)
    timer,        \* per caller: the channel of time.After: "none", "armed", "fired"
    ret,          \* per caller: the value Retry returned
    rets,         \* per caller: the values f returned, in order of invocation
    delays,       \* per caller: the results of b.Next(), in order
    waits,        \* per caller: the branch taken by each select, in order
    runs,         \* per caller: the number of runs started
    prevDelays,   \* per caller: delays of the run before the current one
    prevKind,     \* per caller: ret.kind of the run before the current one
    steps         \* per caller: the argument steps of the helper Retry

vars == <<B, ShouldRetry, MaxSteps, pc, b, filter, errors, n, ctxErr, timer,
          ret, rets, delays, waits, runs, prevDelays, prevKind, steps>>

policy == <<B, ShouldRetry, MaxSteps>>

(***************************************************************************)
(* Bounds of the model.                                                    *)
(***************************************************************************)
NumCallers == 2
MaxStepsBound == 3
NegStepsBound == 1
MaxRuns == 2

\* The width in bits of MaxSteps (int32 in the source), scaled down: the
\* integers of the model wrap at 2^Int32Bits as those of the source wrap at
\* 2^32.
Int32Bits == 3

Callers == 1..NumCallers
Main == CHOOSE c \in Callers : \A d \in Callers : c <= d
Errs == {"e1", "e2"}
Results == {"nil"} \cup Errs
Causes == {"Canceled", "DeadlineExceeded"}

(***************************************************************************)
(* The backoff generator.  Its cursor is the delay the next call of Next   *)
(* returns; Next advances it by the growth factor up to the cap.           *)
(***************************************************************************)
MinBackoff == 1
MaxBackoff == 4
ExpFactor == 2

Min(x, y) == IF x <= y THEN x ELSE y

Clone(c) == c

Reset(c) == MinBackoff

NextDelay(c) == c

NextCursor(c) == Min(c * ExpFactor, MaxBackoff)

RECURSIVE CursorsFrom(_)
CursorsFrom(c) == IF NextCursor(c) = c THEN {c} ELSE {c} \cup CursorsFrom(NextCursor(c))

Cursors == CursorsFrom(MinBackoff)

(***************************************************************************)
(* Values returned by Retry.                                               *)
(***************************************************************************)
NoRet == [kind |-> "none", err |-> "nil", cause |-> "nil", retried |-> 0, errors |-> <<>>]

RetNil == [NoRet EXCEPT !.kind = "nil"]

RetErr(e) == [NoRet EXCEPT !.kind = "err", !.err = e]

RetExpired(cause, k) == [NoRet EXCEPT !.kind = "expired", !.cause = cause, !.retried = k]

RetAborting(es) == [NoRet EXCEPT !.kind = "aborting", !.errors = es]

Filters == {[isNil |-> TRUE, accepts |-> {}]}
           \cup {[isNil |-> FALSE, accepts |-> s] : s \in SUBSET Errs}

DefaultFilter(sr) == IF sr.isNil THEN Errs ELSE sr.accepts

Init ==
    /\ B \in Cursors
    /\ ShouldRetry \in Filters
    /\ MaxSteps \in (0 - NegStepsBound)..MaxStepsBound
    /\ pc = [c \in Callers |-> "idle"]
    /\ b = [c \in Callers |-> MinBackoff]
    /\ filter = [c \in Callers |-> {}]
    /\ errors = [c \in Callers |-> <<>>]
    /\ n = [c \in Callers |-> 0]
    /\ ctxErr = [c \in Callers |-> "nil"]
    /\ timer = [c \in Callers |-> "none"]
    /\ ret = [c \in Callers |-> NoRet]
    /\ rets = [c \in Callers |-> <<>>]
    /\ delays = [c \in Callers |-> <<>>]
    /\ waits = [c \in Callers |-> <<>>]
    /\ runs = [c \in Callers |-> 0]
    /\ prevDelays = [c \in Callers |-> <<>>]
    /\ prevKind = [c \in Callers |-> "none"]
    /\ steps = [c \in Callers |-> 0]

(***************************************************************************)
(* Retryable.Retry, lines 48-57: the run works on a reset clone of r.B     *)
(* and on r.ShouldRetry, or on the filter that accepts every error.        *)
(***************************************************************************)
\* Fault variant of NewCursor: line 50 (b.Reset()) is missing.
NewCursorNoReset(t) == Clone(t)

NewCursor(t) == Reset(Clone(t))

\* Fault variant of RetryCall: lines 49-50 reset r.B itself and use it,
\* instead of a clone.
RetryCallResetsTemplate(c, e0) ==
    /\ pc[c] \in {"idle", "done"}
    /\ runs[c] < MaxRuns
    /\ B' = Reset(B)
    /\ b' = [b EXCEPT ![c] = B']
    /\ filter' = [filter EXCEPT ![c] = DefaultFilter(ShouldRetry)]
    /\ errors' = [errors EXCEPT ![c] = <<>>]
    /\ n' = [n EXCEPT ![c] = 0]
    /\ ctxErr' = [ctxErr EXCEPT ![c] = e0]
    /\ timer' = [timer EXCEPT ![c] = "none"]
    /\ ret' = [ret EXCEPT ![c] = NoRet]
    /\ rets' = [rets EXCEPT ![c] = <<>>]
    /\ prevDelays' = [prevDelays EXCEPT ![c] = delays[c]]
    /\ prevKind' = [prevKind EXCEPT ![c] = ret[c].kind]
    /\ delays' = [delays EXCEPT ![c] = <<>>]
    /\ waits' = [waits EXCEPT ![c] = <<>>]
    /\ runs' = [runs EXCEPT ![c] = @ + 1]
    /\ pc' = [pc EXCEPT ![c] = "loop"]
    /\ UNCHANGED <<ShouldRetry, MaxSteps, steps>>

RetryCall(c, e0) ==
    /\ pc[c] \in {"idle", "done"}
    /\ runs[c] < MaxRuns
    /\ b' = [b EXCEPT ![c] = NewCursor(B)]
    /\ filter' = [filter EXCEPT ![c] = DefaultFilter(ShouldRetry)]
    /\ errors' = [errors EXCEPT ![c] = <<>>]
    /\ n' = [n EXCEPT ![c] = 0]
    /\ ctxErr' = [ctxErr EXCEPT ![c] = e0]
    /\ timer' = [timer EXCEPT ![c] = "none"]
    /\ ret' = [ret EXCEPT ![c] = NoRet]
    /\ rets' = [rets EXCEPT ![c] = <<>>]
    /\ prevDelays' = [prevDelays EXCEPT ![c] = delays[c]]
    /\ prevKind' = [prevKind EXCEPT ![c] = ret[c].kind]
    /\ delays' = [delays EXCEPT ![c] = <<>>]
    /\ waits' = [waits EXCEPT ![c] = <<>>]
    /\ runs' = [runs EXCEPT ![c] = @ + 1]
    /\ pc' = [pc EXCEPT ![c] = "loop"]
    /\ UNCHANGED <<policy, steps>>

(***************************************************************************)
(* The loop condition of line 58.                                          *)
(***************************************************************************)
\* Fault variants of LoopCond: the comparison is <= or != instead of <.
LoopCondLeq(c) == n[c] <= MaxSteps

LoopCondNeq(c) == n[c] # MaxSteps

LoopCond(c) == n[c] < MaxSteps

(***************************************************************************)
(* Lines 59-62: f returns nil and Retry returns nil.                       *)
(***************************************************************************)
\* Fault variant of AttemptNil: line 61 continues the loop instead of
\* returning.
AttemptNilContinue(c) ==
    /\ pc[c] = "loop"
    /\ LoopCond(c)
    /\ rets' = [rets EXCEPT ![c] = Append(@, "nil")]
    /\ n' = [n EXCEPT ![c] = @ + 1]
    /\ UNCHANGED <<policy, pc, b, filter, errors, ctxErr, timer, ret, delays,
                   waits, runs, prevDelays, prevKind, steps>>

\* Fault variant of AttemptNil: the context is checked before f is invoked,
\* and a cancelled context ends the run with the cancellation failure.
AttemptNilChecksCtx(c) ==
    /\ pc[c] = "loop"
    /\ LoopCond(c)
    /\ IF ctxErr[c] # "nil"
       THEN /\ ret' = [ret EXCEPT ![c] = RetExpired(ctxErr[c], n[c])]
            /\ rets' = rets
       ELSE /\ ret' = [ret EXCEPT ![c] = RetNil]
            /\ rets' = [rets EXCEPT ![c] = Append(@, "nil")]
    /\ pc' = [pc EXCEPT ![c] = "done"]
    /\ UNCHANGED <<policy, b, filter, errors, n, ctxErr, timer, delays, waits,
                   runs, prevDelays, prevKind, steps>>

AttemptNil(c) ==
    /\ pc[c] = "loop"
    /\ LoopCond(c)
    /\ rets' = [rets EXCEPT ![c] = Append(@, "nil")]
    /\ ret' = [ret EXCEPT ![c] = RetNil]
    /\ pc' = [pc EXCEPT ![c] = "done"]
    /\ UNCHANGED <<policy, b, filter, errors, n, ctxErr, timer, delays, waits,
                   runs, prevDelays, prevKind, steps>>

(***************************************************************************)
(* Lines 59-65: f returns an error the filter rejects; Retry returns it.   *)
(***************************************************************************)
\* Fault variant of AttemptRejected: line 64 returns the error wrapped in
\* the aggregate of line 76.
AttemptRejectedWrapped(c, e) ==
    /\ pc[c] = "loop"
    /\ LoopCond(c)
    /\ e \notin filter[c]
    /\ rets' = [rets EXCEPT ![c] = Append(@, e)]
    /\ ret' = [ret EXCEPT ![c] = RetAborting(Append(errors[c], e))]
    /\ pc' = [pc EXCEPT ![c] = "done"]
    /\ UNCHANGED <<policy, b, filter, errors, n, ctxErr, timer, delays, waits,
                   runs, prevDelays, prevKind, steps>>

AttemptRejected(c, e) ==
    /\ pc[c] = "loop"
    /\ LoopCond(c)
    /\ e \notin filter[c]
    /\ rets' = [rets EXCEPT ![c] = Append(@, e)]
    /\ ret' = [ret EXCEPT ![c] = RetErr(e)]
    /\ pc' = [pc EXCEPT ![c] = "done"]
    /\ UNCHANGED <<policy, b, filter, errors, n, ctxErr, timer, delays, waits,
                   runs, prevDelays, prevKind, steps>>

(***************************************************************************)
(* Lines 59-68: f returns an error the filter accepts; it is appended to   *)
(* errors, and the select is entered: b.Next() is evaluated and its        *)
(* result starts the timer of time.After.                                  *)
(***************************************************************************)
\* Fault variant of AttemptRetry: line 66 (the append to errors) is missing.
AttemptRetryNoAppend(c, e) ==
    /\ pc[c] = "loop"
    /\ LoopCond(c)
    /\ e \in filter[c]
    /\ rets' = [rets EXCEPT ![c] = Append(@, e)]
    /\ delays' = [delays EXCEPT ![c] = Append(@, NextDelay(b[c]))]
    /\ b' = [b EXCEPT ![c] = NextCursor(@)]
    /\ timer' = [timer EXCEPT ![c] = "armed"]
    /\ pc' = [pc EXCEPT ![c] = "wait"]
    /\ UNCHANGED <<policy, filter, errors, n, ctxErr, ret, waits, runs, prevDelays,
                   prevKind, steps>>

\* Fault variant of AttemptRetry: line 68 calls Next on the shared template
\* r.B instead of the run's clone b.
AttemptRetryOnTemplate(c, e) ==
    /\ pc[c] = "loop"
    /\ LoopCond(c)
    /\ e \in filter[c]
    /\ rets' = [rets EXCEPT ![c] = Append(@, e)]
    /\ errors' = [errors EXCEPT ![c] = Append(@, e)]
    /\ delays' = [delays EXCEPT ![c] = Append(@, NextDelay(B))]
    /\ B' = NextCursor(B)
    /\ timer' = [timer EXCEPT ![c] = "armed"]
    /\ pc' = [pc EXCEPT ![c] = "wait"]
    /\ UNCHANGED <<ShouldRetry, MaxSteps, b, filter, n, ctxErr, ret, waits, runs,
                   prevDelays, prevKind, steps>>

\* Fault variant of AttemptRetry: b.Next() is called twice for one failed
\* attempt (once for the delay, once more in the select).
AttemptRetryNextTwice(c, e) ==
    /\ pc[c] = "loop"
    /\ LoopCond(c)
    /\ e \in filter[c]
    /\ rets' = [rets EXCEPT ![c] = Append(@, e)]
    /\ errors' = [errors EXCEPT ![c] = Append(@, e)]
    /\ delays' = [delays EXCEPT ![c] =
                     Append(Append(@, NextDelay(b[c])), NextDelay(NextCursor(b[c])))]
    /\ b' = [b EXCEPT ![c] = NextCursor(NextCursor(@))]
    /\ timer' = [timer EXCEPT ![c] = "armed"]
    /\ pc' = [pc EXCEPT ![c] = "wait"]
    /\ UNCHANGED <<policy, filter, n, ctxErr, ret, waits, runs, prevDelays,
                   prevKind, steps>>

\* Fault variant of AttemptRetry: the select of lines 67-74 is missing, so
\* the loop goes straight to the next attempt.
AttemptRetryNoWait(c, e) ==
    /\ pc[c] = "loop"
    /\ LoopCond(c)
    /\ e \in filter[c]
    /\ rets' = [rets EXCEPT ![c] = Append(@, e)]
    /\ errors' = [errors EXCEPT ![c] = Append(@, e)]
    /\ n' = [n EXCEPT ![c] = @ + 1]
    /\ UNCHANGED <<policy, pc, b, filter, ctxErr, timer, ret, delays, waits, runs,
                   prevDelays, prevKind, steps>>

AttemptRetry(c, e) ==
    /\ pc[c] = "loop"
    /\ LoopCond(c)
    /\ e \in filter[c]
    /\ rets' = [rets EXCEPT ![c] = Append(@, e)]
    /\ errors' = [errors EXCEPT ![c] = Append(@, e)]
    /\ delays' = [delays EXCEPT ![c] = Append(@, NextDelay(b[c]))]
    /\ b' = [b EXCEPT ![c] = NextCursor(@)]
    /\ timer' = [timer EXCEPT ![c] = "armed"]
    /\ pc' = [pc EXCEPT ![c] = "wait"]
    /\ UNCHANGED <<policy, filter, n, ctxErr, ret, waits, runs, prevDelays, prevKind, steps>>

(***************************************************************************)
(* The timer of time.After elapses: its channel becomes ready, whether or  *)
(* not the run still waits on it.                                          *)
(***************************************************************************)
TimerFire(c) ==
    /\ timer[c] = "armed"
    /\ timer' = [timer EXCEPT ![c] = "fired"]
    /\ UNCHANGED <<policy, pc, b, filter, errors, n, ctxErr, ret, rets, delays,
                   waits, runs, prevDelays, prevKind, steps>>

(***************************************************************************)
(* Lines 68-69: the select takes the timer's branch; continue runs n++.    *)
(***************************************************************************)
\* Fault variant of SelectTimer: the timer's branch falls back into the
\* select instead of continuing the loop.
SelectTimerStays(c) ==
    /\ pc[c] = "wait"
    /\ timer[c] = "fired"
    /\ waits' = [waits EXCEPT ![c] = Append(@, "timer")]
    /\ timer' = [timer EXCEPT ![c] = "none"]
    /\ UNCHANGED <<policy, pc, b, filter, errors, n, ctxErr, ret, rets, delays,
                   runs, prevDelays, prevKind, steps>>

SelectTimer(c) ==
    /\ pc[c] = "wait"
    /\ timer[c] = "fired"
    /\ waits' = [waits EXCEPT ![c] = Append(@, "timer")]
    /\ timer' = [timer EXCEPT ![c] = "none"]
    /\ n' = [n EXCEPT ![c] = @ + 1]
    /\ pc' = [pc EXCEPT ![c] = "loop"]
    /\ UNCHANGED <<policy, b, filter, errors, ctxErr, ret, rets, delays, runs,
                   prevDelays, prevKind, steps>>

(***************************************************************************)
(* Lines 70-73: the select takes the branch of ctx.Done(); Retry returns   *)
(* the error that names ctx.Err() and n.  The timer is left behind.        *)
(***************************************************************************)
\* Fault variant of Retried: line 73 reports n + 1.
RetriedPlusOne(c) == n[c] + 1

Retried(c) == n[c]

\* Fault variant of SelectDone: the branch of ctx.Done() leaves the select
\* only, and the loop goes on.
SelectDoneBreak(c) ==
    /\ pc[c] = "wait"
    /\ ctxErr[c] # "nil"
    /\ waits' = [waits EXCEPT ![c] = Append(@, "done")]
    /\ n' = [n EXCEPT ![c] = @ + 1]
    /\ pc' = [pc EXCEPT ![c] = "loop"]
    /\ UNCHANGED <<policy, b, filter, errors, ctxErr, timer, ret, rets, delays,
                   runs, prevDelays, prevKind, steps>>

SelectDone(c) ==
    /\ pc[c] = "wait"
    /\ ctxErr[c] # "nil"
    /\ waits' = [waits EXCEPT ![c] = Append(@, "done")]
    /\ ret' = [ret EXCEPT ![c] = RetExpired(ctxErr[c], Retried(c))]
    /\ pc' = [pc EXCEPT ![c] = "done"]
    /\ UNCHANGED <<policy, b, filter, errors, n, ctxErr, timer, rets, delays, runs,
                   prevDelays, prevKind, steps>>

(***************************************************************************)
(* Lines 58 and 76: the loop condition fails; Retry returns the error      *)
(* that lists errors.                                                      *)
(***************************************************************************)
\* Fault variant of LoopExit: line 76 returns nil.
LoopExitNil(c) ==
    /\ pc[c] = "loop"
    /\ ~LoopCond(c)
    /\ ret' = [ret EXCEPT ![c] = RetNil]
    /\ pc' = [pc EXCEPT ![c] = "done"]
    /\ UNCHANGED <<policy, b, filter, errors, n, ctxErr, timer, rets, delays,
                   waits, runs, prevDelays, prevKind, steps>>

LoopExit(c) ==
    /\ pc[c] = "loop"
    /\ ~LoopCond(c)
    /\ ret' = [ret EXCEPT ![c] = RetAborting(errors[c])]
    /\ pc' = [pc EXCEPT ![c] = "done"]
    /\ UNCHANGED <<policy, b, filter, errors, n, ctxErr, timer, rets, delays,
                   waits, runs, prevDelays, prevKind, steps>>

(***************************************************************************)
(* The helper Retry, lines 81-85, up to the loop of the Retryable.Retry it *)
(* calls: b is reset, the Retryable r is built from b and int32(steps)     *)
(* with no filter, and r.Retry starts (lines 48-57).  B is the cursor of   *)
(* the caller's b, which r.B refers to.                                    *)
(***************************************************************************)
Int32Modulus == 2 ^ Int32Bits

Int32Half == 2 ^ (Int32Bits - 1)

\* The conversion int32(x) of line 84: x modulo 2^Int32Bits, as a signed
\* value.
Int32(x) == ((x + Int32Half) % Int32Modulus) - Int32Half

\* The values of steps: the int32 range and the values next to it on both
\* sides, one modulus wide each.
StepsValues == (0 - Int32Half - Int32Modulus)..(Int32Half + Int32Modulus)

NilFilter == [isNil |-> TRUE, accepts |-> {}]

\* Fault variant of HelperReset: line 83 (b.Reset()) is missing.
HelperNoReset(t) == t

HelperReset(t) == Reset(t)

HelperCall(c, s, e0) ==
    /\ pc[c] \in {"idle", "done"}
    /\ runs[c] < MaxRuns
    /\ steps' = [steps EXCEPT ![c] = s]
    /\ B' = HelperReset(B)
    /\ ShouldRetry' = NilFilter
    /\ MaxSteps' = Int32(s)
    /\ b' = [b EXCEPT ![c] = NewCursor(B')]
    /\ filter' = [filter EXCEPT ![c] = DefaultFilter(ShouldRetry')]
    /\ errors' = [errors EXCEPT ![c] = <<>>]
    /\ n' = [n EXCEPT ![c] = 0]
    /\ ctxErr' = [ctxErr EXCEPT ![c] = e0]
    /\ timer' = [timer EXCEPT ![c] = "none"]
    /\ ret' = [ret EXCEPT ![c] = NoRet]
    /\ rets' = [rets EXCEPT ![c] = <<>>]
    /\ prevDelays' = [prevDelays EXCEPT ![c] = delays[c]]
    /\ prevKind' = [prevKind EXCEPT ![c] = ret[c].kind]
    /\ delays' = [delays EXCEPT ![c] = <<>>]
    /\ waits' = [waits EXCEPT ![c] = <<>>]
    /\ runs' = [runs EXCEPT ![c] = @ + 1]
    /\ pc' = [pc EXCEPT ![c] = "loop"]

(***************************************************************************)
(* The environment: the context of a run is cancelled or passes its        *)
(* deadline while the run is in progress.                                  *)
(***************************************************************************)
CtxDone(c, cause) ==
    /\ pc[c] \in {"loop", "wait"}
    /\ ctxErr[c] = "nil"
    /\ ctxErr' = [ctxErr EXCEPT ![c] = cause]
    /\ UNCHANGED <<policy, pc, b, filter, errors, n, timer, ret, rets, delays,
                   waits, runs, prevDelays, prevKind, steps>>

(***************************************************************************)
(* The environment: between runs the owner of the Retryable draws a delay  *)
(* from the template r.B itself.                                           *)
(***************************************************************************)
TemplateNext ==
    /\ \A c \in Callers : pc[c] \in {"idle", "done"}
    /\ NextCursor(B) # B
    /\ B' = NextCursor(B)
    /\ UNCHANGED <<ShouldRetry, MaxSteps, pc, b, filter, errors, n, ctxErr,
                   timer, ret, rets, delays, waits, runs, prevDelays, prevKind, steps>>

Run(c) ==
    \/ \E e0 \in {"nil"} \cup Causes : RetryCall(c, e0)
    \/ AttemptNil(c)
    \/ \E e \in Errs : AttemptRejected(c, e)
    \/ \E e \in Errs : AttemptRetry(c, e)
    \/ TimerFire(c)
    \/ SelectTimer(c)
    \/ SelectDone(c)
    \/ LoopExit(c)
    \/ \E cause \in Causes : CtxDone(c, cause)

(***************************************************************************)
(* Spec: the caller Main uses the Retryable for up to MaxRuns runs, one    *)
(* after the other; the other callers stay idle.                           *)
(***************************************************************************)
Next == Run(Main) \/ TemplateNext

Spec == Init /\ [][Next]_vars

TypeOK ==
    /\ B \in Cursors
    /\ ShouldRetry \in Filters
    /\ MaxSteps \in Int
    /\ \A c \in Callers :
        /\ pc[c] \in {"idle", "loop", "wait", "done"}
        /\ b[c] \in Cursors
        /\ filter[c] \subseteq Errs
        /\ errors[c] \in Seq(Errs)
        /\ n[c] \in Nat
        /\ ctxErr[c] \in {"nil"} \cup Causes
        /\ timer[c] \in {"none", "armed", "fired"}
        /\ rets[c] \in Seq(Results)
        /\ delays[c] \in Seq(Cursors)
        /\ waits[c] \in Seq({"timer", "done"})
        /\ runs[c] \in 0..MaxRuns
        /\ prevDelays[c] \in Seq(Cursors)
        /\ prevKind[c] \in {"none", "nil", "err", "expired", "aborting"}
        /\ ret[c].kind \in {"none", "nil", "err", "expired", "aborting"}
        /\ steps[c] \in Int

(***************************************************************************)
(* What a run has done so far.                                             *)
(***************************************************************************)
Last(s) == s[Len(s)]

Max(x, y) == IF x >= y THEN x ELSE y

Invocations(c) == Len(rets[c])

NextCalls(c) == Len(delays[c])

Selects(c) == Len(waits[c])

\* The first k values f returned are errors the run's filter accepts.
EligibleUpTo(c, k) == \A i \in 1..k : rets[c][i] \in filter[c]

\* Every invocation made so far returned an error the run's filter accepts.
AlwaysFailed(c) == EligibleUpTo(c, Invocations(c))

\* s is a prefix of t, or t a prefix of s.
Agree(s, t) == \A i \in 1..Min(Len(s), Len(t)) : s[i] = t[i]

(***************************************************************************)
(* C1: if f fails with accepted errors on attempts 1..k-1, the context is  *)
(* not cancelled and f returns nil on attempt k (1 <= k <= MaxSteps), the  *)
(* run has returned nil after exactly k invocations of f and exactly k-1   *)
(* calls of Next (k-1 waits, each ended by its timer).                     *)
(***************************************************************************)
C1_SuccessOnAttemptK ==
    \A c \in Callers : \A k \in 1..Invocations(c) :
        (/\ MaxSteps >= 1
         /\ k <= MaxSteps
         /\ EligibleUpTo(c, k - 1)
         /\ rets[c][k] = "nil"
         /\ ctxErr[c] = "nil")
        => /\ pc[c] = "done"
           /\ ret[c] = RetNil
           /\ Invocations(c) = k
           /\ NextCalls(c) = k - 1
           /\ waits[c] = [i \in 1..(k - 1) |-> "timer"]

C1_Witness ==
    /\ MaxSteps = 3
    /\ rets[Main] = <<"e1", "e2", "nil">>
    /\ ctxErr[Main] = "nil"
    /\ ret[Main] = RetNil

(***************************************************************************)
(* C2: when f always fails and the filter accepts every error, a run       *)
(* calls Next (enters a wait) exactly MaxSteps - 1 times: once the attempt *)
(* numbered MaxSteps has failed, Next has been called MaxSteps - 1 times   *)
(* and is not called again.                                                *)
(***************************************************************************)
C2_NoWaitAfterLastAttempt ==
    \A c \in Callers :
        (/\ MaxSteps >= 1
         /\ Invocations(c) = MaxSteps
         /\ AlwaysFailed(c))
        => /\ NextCalls(c) = MaxSteps - 1
           /\ pc[c] # "wait"

(***************************************************************************)
(* C3: once f has been invoked MaxSteps times (MaxSteps >= 1) in a run and *)
(* every invocation returned an accepted error, the run returns the        *)
(* exhaustion failure, which carries exactly those MaxSteps errors in the  *)
(* order of the attempts; no other outcome is possible.                    *)
(***************************************************************************)
C3_ExhaustedAfterLastAttempt ==
    \A c \in Callers :
        (/\ MaxSteps >= 1
         /\ Invocations(c) = MaxSteps
         /\ AlwaysFailed(c)
         /\ pc[c] = "done")
        => ret[c] = RetAborting(rets[c])

C5_RejectedErrorReturned ==
    \A c \in Callers : \A k \in 1..Invocations(c) :
        (rets[c][k] \in Errs /\ rets[c][k] \notin filter[c])
        => /\ pc[c] = "done"
           /\ ret[c] = RetErr(rets[c][k])
           /\ Invocations(c) = k
           /\ NextCalls(c) = k - 1
           /\ Selects(c) = k - 1
           /\ errors[c] = SubSeq(rets[c], 1, k - 1)

C5_Witness ==
    /\ rets[Main] = <<"e1", "e2">>
    /\ filter[Main] = {"e1"}
    /\ ret[Main] = RetErr("e2")

(***************************************************************************)
(* C6: once a select of a run has taken the branch of ctx.Done(), the run  *)
(* has returned the cancellation failure, and for the rest of that run f   *)
(* is not invoked, Next is not called and no select is entered, also when  *)
(* the timer of that select has fired.                                     *)
(***************************************************************************)
CancelObserved(c) == waits[c] # <<>> /\ Last(waits[c]) = "done"

C6_NothingAfterCancellation ==
    [][\A c \in Callers :
          CancelObserved(c)
          => /\ pc[c] = "done"
             /\ ret[c].kind = "expired"
             /\ runs'[c] = runs[c]
                => /\ rets'[c] = rets[c]
                   /\ delays'[c] = delays[c]
                   /\ waits'[c] = waits[c]
                   /\ ret'[c] = ret[c]
                   /\ pc'[c] = "done"]_vars

C6_Witness ==
    /\ CancelObserved(Main)
    /\ timer[Main] = "fired"
    /\ Invocations(Main) = 1
    /\ MaxSteps = 3

(***************************************************************************)
(* C7: the cursor of a run starts at the initial delay whatever the        *)
(* position of the template r.B, and the delays of two successive runs on  *)
(* the same Retryable agree; two successive runs that both fail on every   *)
(* attempt and are not cancelled wait on the identical sequence.           *)
(***************************************************************************)
C7_SameDelaysOnEveryRun ==
    \A c \in Callers :
        /\ delays[c] # <<>> => delays[c][1] = MinBackoff
        /\ runs[c] >= 2 => Agree(prevDelays[c], delays[c])
        /\ (runs[c] >= 2 /\ prevKind[c] = "aborting" /\ ret[c].kind = "aborting")
           => prevDelays[c] = delays[c]

C7_Witness ==
    /\ runs[Main] = 2
    /\ MaxSteps = 3
    /\ B # MinBackoff
    /\ prevKind[Main] = "aborting"
    /\ ret[Main].kind = "aborting"
    /\ Len(delays[Main]) = 3
    /\ delays[Main][3] # delays[Main][1]

(***************************************************************************)
(* C8: with MaxSteps <= 0 a run never invokes f, never calls Next, never   *)
(* enters a select (so never reads the context), and returns the           *)
(* exhaustion failure with an empty list of errors, for a live and for a   *)
(* cancelled context alike.                                                *)
(***************************************************************************)
C8_NoAttemptWithoutSteps ==
    \A c \in Callers :
        MaxSteps <= 0
        => /\ rets[c] = <<>>
           /\ delays[c] = <<>>
           /\ waits[c] = <<>>
           /\ pc[c] # "wait"
           /\ pc[c] = "done" => ret[c] = RetAborting(<<>>)

C8_Witness ==
    /\ MaxSteps < 0
    /\ pc[Main] = "done"
    /\ ctxErr[Main] # "nil"
    /\ ret[Main] = RetAborting(<<>>)

(***************************************************************************)
(* C9: in every state the number of invocations of f made by a run is at   *)
(* most max(MaxSteps, 0).                                                  *)
(***************************************************************************)
C9_AtMostMaxSteps ==
    \A c \in Callers : Invocations(c) <= Max(MaxSteps, 0)

C9_Witness ==
    /\ MaxSteps >= 2
    /\ Invocations(Main) = MaxSteps
    /\ ctxErr[Main] # "nil"
    /\ pc[Main] = "wait"
    /\ timer[Main] = "fired"

(***************************************************************************)
(* C10: a run that has returned has returned exactly one of nil            *)
(* (success), the rejected error, the cancellation failure and the         *)
(* exhaustion failure, and each is returned in its own case only: the      *)
(* rejected error iff the last invocation returned an error the filter     *)
(* rejects, the cancellation failure iff the last select took the branch   *)
(* of ctx.Done(), nil iff the last invocation returned nil, and the        *)
(* exhaustion failure iff none of these, the loop having run out of        *)
(* attempts.  A run that has not returned has no outcome.                  *)
(***************************************************************************)
LastRejected(c) ==
    rets[c] # <<>> /\ Last(rets[c]) \in Errs /\ Last(rets[c]) \notin filter[c]

LastNil(c) == rets[c] # <<>> /\ Last(rets[c]) = "nil"

C10_OneOutcomePerRun ==
    \A c \in Callers :
        /\ pc[c] # "done" => ret[c] = NoRet
        /\ pc[c] = "done"
           => /\ ret[c].kind \in {"nil", "err", "expired", "aborting"}
              /\ ret[c].kind = "err" <=> LastRejected(c)
              /\ ret[c].kind = "err" => ret[c] = RetErr(Last(rets[c]))
              /\ ret[c].kind = "expired" <=> CancelObserved(c)
              /\ ret[c].kind = "nil" <=> LastNil(c)
              /\ ret[c].kind = "nil" => ret[c] = RetNil
              /\ ret[c].kind = "aborting"
                 <=> (~LastRejected(c) /\ ~CancelObserved(c) /\ ~LastNil(c))
              /\ ret[c].kind = "aborting"
                 => /\ ~LoopCond(c)
                    /\ ret[c] = RetAborting(errors[c])
              /\ ~(LastRejected(c) /\ CancelObserved(c))
              /\ ~(LastRejected(c) /\ LastNil(c))
              /\ ~(CancelObserved(c) /\ LastNil(c))

C10_Witness ==
    /\ pc[Main] = "done"
    /\ ret[Main].kind = "aborting"
    /\ MaxSteps = 2
    /\ rets[Main] = <<"e2", "e1">>
    /\ ctxErr[Main] # "nil"


(***************************************************************************)
(* The error values a returned outcome carries: the rejected error itself, *)
(* or the errors listed by the exhaustion failure.  The cancellation       *)
(* failure carries ctx.Err() and a count only.                             *)
(***************************************************************************)
Carried(r) ==
    (IF r.kind = "err" THEN {r.err} ELSE {})
    \cup {r.errors[i] : i \in 1..Len(r.errors)}

Failed(c) == pc[c] = "done" /\ ret[c].kind \in {"err", "expired", "aborting"}

(***************************************************************************)
(* C11, as stated: for every run that ends in a failure, every error value *)
(* returned by an invocation of f during that run is carried by the        *)
(* returned outcome.                                                       *)
(***************************************************************************)
C11_AllErrorsReturned ==
    \A c \in Callers :
        Failed(c)
        => \A i \in 1..Invocations(c) :
               rets[c][i] \in Errs => rets[c][i] \in Carried(ret[c])

(***************************************************************************)
(* C11, amended: a run that ends in the exhaustion failure returns every   *)
(* error value its invocations of f returned, in the order of the          *)
(* attempts; a run that ends with a rejected error returns the error of    *)
(* its last invocation only, and a run that ends in the cancellation       *)
(* failure returns none of the errors f returned.                          *)
(***************************************************************************)
C11_ErrorsReturnedPerOutcome ==
    \A c \in Callers :
        Failed(c)
        => /\ ret[c].kind = "aborting" => ret[c].errors = rets[c]
           /\ ret[c].kind = "err" => Carried(ret[c]) = {Last(rets[c])}
           /\ ret[c].kind = "expired" => Carried(ret[c]) = {}

C11_Witness ==
    /\ MaxSteps = 3
    /\ ret[Main].kind = "aborting"
    /\ ret[Main].errors = <<"e1", "e2", "e1">>
    /\ rets[Main] = <<"e1", "e2", "e1">>


(***************************************************************************)
(* SpecConcurrent: every caller runs Retry once on the one shared          *)
(* Retryable, the runs interleaved in any order.  The Retryable has the    *)
(* nil filter and at least one step, and its fields are left alone by      *)
(* their owner; f returns nil or the error e1, and a context ends by       *)
(* cancellation.                                                           *)
(***************************************************************************)
InitConcurrent ==
    /\ Init
    /\ ShouldRetry.isNil
    /\ MaxSteps \in 1..MaxStepsBound

ConcurrentRun(c) ==
    \/ \E e0 \in {"nil", "Canceled"} : runs[c] = 0 /\ RetryCall(c, e0)
    \/ AttemptNil(c)
    \/ AttemptRetry(c, "e1")
    \/ TimerFire(c)
    \/ SelectTimer(c)
    \/ SelectDone(c)
    \/ LoopExit(c)
    \/ CtxDone(c, "Canceled")

NextConcurrent == \E c \in Callers : ConcurrentRun(c)

SpecConcurrent == InitConcurrent /\ [][NextConcurrent]_vars


(***************************************************************************)
(* The cursor and the delays of a run that executes alone: the cursor      *)
(* starts at the initial delay and is advanced by the run's own calls of   *)
(* Next only.                                                              *)
(***************************************************************************)
RECURSIVE AloneCursor(_)
AloneCursor(k) == IF k = 0 THEN MinBackoff ELSE NextCursor(AloneCursor(k - 1))

AloneDelay(i) == NextDelay(AloneCursor(i - 1))

(***************************************************************************)
(* C12: when runs execute concurrently on one shared Retryable, in every   *)
(* interleaving each run waits on the delays it would see executing alone  *)
(* from the initial delay, and the cursor of a run is where the run's own  *)
(* calls of Next have put it: no call of Next by another run moves it.     *)
(***************************************************************************)
C12_OwnCursorPerRun ==
    \A c \in Callers :
        runs[c] >= 1
        => /\ \A i \in 1..NextCalls(c) : delays[c][i] = AloneDelay(i)
           /\ b[c] = AloneCursor(NextCalls(c))

C12_Witness ==
    \E c, d \in Callers :
        /\ c # d
        /\ pc[c] = "wait"
        /\ pc[d] = "wait"
        /\ delays[c] = <<AloneDelay(1), AloneDelay(2), AloneDelay(3)>>
        /\ delays[d] = <<AloneDelay(1)>>
        /\ B # MinBackoff


(***************************************************************************)
(* SpecHelper: the caller Main calls the helper Retry up to MaxRuns times, *)
(* one call after the other, with a backoff b at any cursor position and   *)
(* any value of steps; f returns nil or the error e1.                      *)
(***************************************************************************)
InitHelper ==
    /\ Init
    /\ ShouldRetry = NilFilter
    /\ MaxSteps = 0

HelperRun(c) ==
    \/ \E s \in StepsValues : \E e0 \in {"nil"} \cup Causes : HelperCall(c, s, e0)
    \/ AttemptNil(c)
    \/ AttemptRetry(c, "e1")
    \/ TimerFire(c)
    \/ SelectTimer(c)
    \/ SelectDone(c)
    \/ LoopExit(c)
    \/ \E cause \in Causes : CtxDone(c, cause)

NextHelper == HelperRun(Main)

SpecHelper == InitHelper /\ [][NextHelper]_vars


(***************************************************************************)
(* C13: for every value of steps, also outside the range of int32, the     *)
(* helper Retry behaves as a policy with MaxSteps = steps and the filter   *)
(* that accepts every error: f is invoked at most max(steps, 0) times (not *)
(* at all for steps <= 0), and a run in which f always fails and the       *)
(* context is not cancelled invokes f exactly steps times for steps >= 1.  *)
(***************************************************************************)
C13_HelperHonoursSteps ==
    \A c \in Callers :
        runs[c] >= 1
        => /\ filter[c] = Errs
           /\ Invocations(c) <= Max(steps[c], 0)
           /\ (/\ pc[c] = "done"
               /\ steps[c] >= 1
               /\ AlwaysFailed(c)
               /\ ctxErr[c] = "nil")
              => Invocations(c) = steps[c]

AcceptedAttempts(c) == {i \in 1..Invocations(c) : rets[c][i] \in filter[c]}

C14_OneNextPerAcceptedFailure ==
    \A c \in Callers :
        /\ NextCalls(c) = Len(errors[c])
        /\ NextCalls(c) = Cardinality(AcceptedAttempts(c))
        /\ \A i \in 1..Len(errors[c]) : errors[c][i] = rets[c][i]
        /\ pc[c] = "wait" => NextCalls(c) = Invocations(c)
        /\ (LastNil(c) \/ LastRejected(c)) => NextCalls(c) = Invocations(c) - 1

C14_Witness ==
    /\ pc[Main] = "wait"
    /\ NextCalls(Main) = 3
    /\ errors[Main] = <<"e2", "e1", "e2">>


(***************************************************************************)
(* SpecFair: Spec, where every invocation of f returns, every timer fires, *)
(* a select with a ready branch takes one, and the loop goes on.  Nothing  *)
(* is assumed of the context: it may never be cancelled.                   *)
(***************************************************************************)
Attempt(c) ==
    \/ AttemptNil(c)
    \/ \E e \in Errs : AttemptRejected(c, e)
    \/ \E e \in Errs : AttemptRetry(c, e)

Select(c) == SelectTimer(c) \/ SelectDone(c)

Fairness(c) ==
    /\ WF_vars(Attempt(c))
    /\ WF_vars(TimerFire(c))
    /\ WF_vars(Select(c))
    /\ WF_vars(LoopExit(c))

SpecFair == Init /\ [][Next]_vars /\ Fairness(Main)

(***************************************************************************)
(* C15: for every MaxSteps, a run in which every invocation of f returns   *)
(* and every timer fires terminates: a run that has started eventually     *)
(* returns (nil, the rejected error, the cancellation failure or the       *)
(* exhaustion failure).                                                    *)
(***************************************************************************)
C15_RunTerminates ==
    \A c \in Callers : (pc[c] \in {"loop", "wait"}) ~> (pc[c] = "done")

C15_Witness ==
    /\ pc[Main] = "done"
    /\ runs[Main] = 2
    /\ MaxSteps = 3
    /\ waits[Main] = <<"timer", "timer", "timer">>
    /\ ret[Main].kind = "aborting"


(***************************************************************************)
(* C16: within a run invocations of f and waits alternate: every wait      *)
(* follows an invocation that failed with an accepted error, directly;     *)
(* every invocation but the first follows a wait that took its timer's     *)
(* branch; and f is not invoked while a wait is pending, since a run is    *)
(* either about to invoke f, with every wait it entered finished, or       *)
(* waiting, or done.                                                       *)
(***************************************************************************)
C16_AttemptsAndWaitsAlternate ==
    \A c \in Callers :
        /\ Selects(c) <= Invocations(c)
        /\ Invocations(c) <= Selects(c) + 1
        /\ \A k \in 1..Selects(c) : rets[c][k] \in filter[c]
        /\ \A k \in 2..Invocations(c) : k - 1 <= Selects(c) /\ waits[c][k - 1] = "timer"
        /\ pc[c] = "wait"
           => /\ Invocations(c) = Selects(c) + 1
              /\ Last(rets[c]) \in filter[c]
              /\ timer[c] # "none"
        /\ pc[c] = "loop"
           => /\ Invocations(c) = Selects(c)
              /\ n[c] = Invocations(c)
              /\ timer[c] = "none"

C16_Witness ==
    /\ pc[Main] = "loop"
    /\ rets[Main] = <<"e1", "e1">>
    /\ waits[Main] = <<"timer", "timer">>
    /\ ctxErr[Main] # "nil"
    /\ MaxSteps = 3


(***************************************************************************)
(* C17: a run of Retryable.Retry leaves the policy unchanged: the step     *)
(* that starts a run and every step taken while a run is in progress,      *)
(* up to and including the step that returns, keep the cursor of r.B,      *)
(* r.ShouldRetry and r.MaxSteps; only the run's own clone and error list   *)
(* change.                                                                 *)
(***************************************************************************)
Running(c) == pc[c] \in {"loop", "wait"}

C17_RunLeavesPolicyUnchanged ==
    [][(\E c \in Callers : Running(c) \/ Running(c)')
       => /\ B' = B
          /\ ShouldRetry' = ShouldRetry
          /\ MaxSteps' = MaxSteps]_vars

C17_Witness ==
    /\ pc[Main] = "done"
    /\ ret[Main].kind = "expired"
    /\ B = MaxBackoff
    /\ B # MinBackoff
    /\ b[Main] # B
    /\ errors[Main] = <<"e2">>


(***************************************************************************)
(* C19: cancellation is observed at the wait only, never before an         *)
(* attempt: a run with MaxSteps >= 1 whose context is cancelled before the *)
(* first attempt has not returned before invoking f and returns only after *)
(* at least one invocation; if f returns nil the run returns nil whatever  *)
(* the state of the context; and the cancellation failure is returned only *)
(* after an attempt has failed with an accepted error and the select that  *)
(* follows it has taken the branch of ctx.Done().                          *)
(***************************************************************************)
C19_CancellationOnlyAtWait ==
    \A c \in Callers :
        /\ (pc[c] = "loop" /\ ctxErr[c] # "nil") => ret[c] = NoRet
        /\ (pc[c] = "done" /\ MaxSteps >= 1) => Invocations(c) >= 1
        /\ LastNil(c) => ret[c] = RetNil
        /\ ret[c].kind = "expired"
           => /\ errors[c] # <<>>
              /\ Last(rets[c]) \in filter[c]
              /\ Selects(c) = Invocations(c)
              /\ CancelObserved(c)

C19_Witness ==
    /\ MaxSteps >= 1
    /\ ctxErr[Main] = "DeadlineExceeded"
    /\ rets[Main] = <<"nil">>
    /\ ret[Main] = RetNil
    /\ runs[Main] = 1

====
